---- MODULE Spec2Model ----
(***************************************************************************)
(* State-machine model of src/driver/vhci_driver.c: the process-wide VHCI  *)
(* driver session (vhci_driver, udev_context), the imported-device table   *)
(* idev[0..nports-1], and the public operations open, close, refresh,      *)
(* get_free_port, attach, detach and attached_to.                          *)
(*                                                                         *)
(* A status attribute is modelled as a header line plus a sequence of data *)
(* lines; a data line is the sequence of whitespace-separated tokens that  *)
(* sscanf("%2s %d %d %d %x %u %31s\n") walks over.                         *)
(***************************************************************************)
EXTENDS Integers, Sequences, FiniteSets, TLC

(* ------------------------------------------------------------------ *)
(* Bounds of the model                                                 *)
(* ------------------------------------------------------------------ *)

\* largest port count of a machine
MaxPorts == 2
\* largest number of vhci_hcd.<n> controllers of a machine
MaxControllers == 2

(* ------------------------------------------------------------------ *)
(* Program constants                                                   *)
(* ------------------------------------------------------------------ *)

\* enum hub_speed: the value memset(0)/calloc leave in idev->hub is HIGH
HUB_SPEED_HIGH == 0
HUB_SPEED_SUPER == 1
\* enum usbip_device_status, the virtual-device half
VDEV_ST_NULL == 4
VDEV_ST_NOTASSIGNED == 5
VDEV_ST_USED == 6
\* enum usb_device_speed
USB_SPEED_SUPER == 5

\* a NULL char* / a zeroed struct usbip_usb_device
NoBusid == ""

(* ------------------------------------------------------------------ *)
(* The table entry: struct usbip_imported_device                       *)
(* ------------------------------------------------------------------ *)

\* memset(idev, 0, sizeof(*idev)), and every entry after calloc
ZeroIdev ==
  [hub |-> 0, port |-> 0, status |-> 0, devid |-> 0,
   busnum |-> 0, devnum |-> 0, udev |-> NoBusid]

\* the NULL value of the vhci_driver pointer
NullDriver ==
  [valid |-> FALSE, hc_device |-> FALSE, nports |-> 0, ncontrollers |-> 0,
   idev |-> <<>>]

VARIABLES
  hw,            \* the machine: [nports, ncontrollers] of its vhci_hcd
  vhci_driver,   \* the session: [valid, hc_device, nports, ncontrollers, idev]
  udev_context,  \* "NULL", "live", or "released" (unref'ed, pointer kept)
  proc,          \* "running", "aborted" (BUG()) or "crashed" (invalid access)
  last           \* the call the caller last made, Idle between two calls

vars == <<hw, vhci_driver, udev_context, proc, last>>

(* ------------------------------------------------------------------ *)
(* The device lookup used for an occupied port                         *)
(* ------------------------------------------------------------------ *)

\* bus ids for which udev_device_new_from_subsystem_sysname("usb", busid)
\* finds a device
Resolvable == {"1-1"}

\* imported_device_init: the lookup by bus id through udev_context; on
\* success read_usb_device fills idev->udev, on failure the result is NULL.
imported_device_init(idev, busid, ctx) ==
  IF ctx /\ busid \in Resolvable
    THEN [ok |-> TRUE, idev |-> [idev EXCEPT !.udev = busid]]
    ELSE [ok |-> FALSE, idev |-> idev]

(* ------------------------------------------------------------------ *)
(* sscanf over the status text                                         *)
(* ------------------------------------------------------------------ *)

\* The conversion of the text at data line k. A data line holds its first
\* n tokens (hub port status speed devid sockfd busid). White space in the
\* format matches line breaks too, so a conversion that runs out of tokens
\* on line k goes on with the first token of line k+1, a hub tag: %d, %x
\* and %u fail on it, %31s takes it.
sscanf_status(lines, k) ==
  LET l == lines[k]
      more == k < Len(lines)
      ret == IF l.n = 6 /\ more THEN 7 ELSE l.n
  IN [ret |-> ret,
      hub |-> l.hub, port |-> l.port, status |-> l.status,
      speed |-> l.speed, devid |-> l.devid, sockfd |-> l.sockfd,
      \* lbusid is written only by the seventh conversion
      busidSet |-> ret = 7,
      lbusid |-> IF l.n = 7 THEN l.busid
                 ELSE IF l.n = 6 /\ more THEN lines[k + 1].hub
                 ELSE NoBusid]

(* ------------------------------------------------------------------ *)
(* parse_status                                                        *)
(* ------------------------------------------------------------------ *)

\* BUG(): err("sorry, it's a bug!"); abort() -- the process ends
BUG(m) == [m EXCEPT !.st = "aborted"]

\* a store that keeps what the entry held instead of clearing it first
StoreIdevNoMemset(old, sc) ==
  [old EXCEPT
     !.hub = IF sc.hub = "hs" THEN HUB_SPEED_HIGH ELSE HUB_SPEED_SUPER,
     !.port = sc.port,
     !.status = sc.status,
     !.devid = sc.devid,
     !.busnum = sc.devid \div 65536,
     !.devnum = sc.devid % 65536]

\* idev = &vhci_driver->idev[port]; memset(idev, 0, sizeof(*idev)); the
\* field stores of lines 75-86. old is what the entry held.
StoreIdev(old, sc) ==
  [ZeroIdev EXCEPT
     !.hub = IF sc.hub = "hs" THEN HUB_SPEED_HIGH ELSE HUB_SPEED_SUPER,
     !.port = sc.port,
     !.status = sc.status,
     !.devid = sc.devid,
     !.busnum = sc.devid \div 65536,
     !.devnum = sc.devid % 65536]

\* The stores through &vhci_driver->idev[port] for a port outside the
\* allocation: an invalid access. It either faults (ub = "crash") or lands
\* in the memory around the table (ub = "silent"); for a negative port that
\* memory is the head of the same allocation, the struct usbip_vhci_driver
\* fields hc_device, ncontrollers and nports, which the memset zeroes.
StoreOutside(m, port, ub) ==
  IF ub = "crash" THEN [m EXCEPT !.st = "crashed"]
  ELSE IF port < 0
    THEN [m EXCEPT !.oob = TRUE, !.hc_device = FALSE,
                   !.ncontrollers = 0, !.nports = 0]
    ELSE [m EXCEPT !.oob = TRUE]

\* One pass of the while loop body, lines 58-95, on the scanned fields sc.
\* u is the content of lbusid when no conversion has written it.
parse_line(m, sc, u, ub) ==
  IF sc.ret < 5 THEN BUG(m)
  ELSE
    LET inside == sc.port \in DOMAIN m.idev
        e == StoreIdev(IF inside THEN m.idev[sc.port] ELSE ZeroIdev, sc)
        m1 == IF inside
                THEN [m EXCEPT !.idev[sc.port] = e,
                               !.written = @ \cup {sc.port}]
                ELSE StoreOutside(m, sc.port, ub)
        occupied == e.status # VDEV_ST_NULL /\ e.status # VDEV_ST_NOTASSIGNED
        busid == IF sc.busidSet THEN sc.lbusid ELSE u
        r == imported_device_init(e, busid, m.ctx)
    IN IF m1.st # "run" THEN m1
       ELSE IF ~occupied THEN m1
       ELSE IF ~r.ok THEN [m1 EXCEPT !.st = "err"]
       ELSE IF inside THEN [m1 EXCEPT !.idev[sc.port] = r.idev]
       ELSE m1

RECURSIVE parse_loop(_, _, _, _, _)
\* while (*c != '\0') { ... c = strchr(c, '\n'); ... }
parse_loop(m, lines, k, u, ub) ==
  IF k > Len(lines) THEN m
  ELSE LET m1 == parse_line(m, sscanf_status(lines, k), u, ub)
       IN IF m1.st # "run" THEN m1
          ELSE parse_loop(m1, lines, k + 1, u, ub)

\* parse_status(value): value.nl says whether the text holds a '\n' ending
\* its header line.
parse_status(m, value, u, ub) ==
  IF ~value.nl THEN [m EXCEPT !.st = "err"]
  ELSE parse_loop(m, value.lines, 1, u, ub)

(* ------------------------------------------------------------------ *)
(* refresh_imported_device_list                                        *)
(* ------------------------------------------------------------------ *)

RECURSIVE refresh_loop(_, _, _, _, _)
\* for (i = 0; i < vhci_driver->ncontrollers; i++): attrs[i] is the value
\* of "status" (i = 0) or "status.<i>"; the attribute lookup goes through
\* vhci_driver->hc_device.
refresh_loop(m, attrs, i, u, ub) ==
  IF ~(i < m.ncontrollers) THEN m
  ELSE IF ~m.hc_device \/ i \notin DOMAIN attrs \/ ~attrs[i].present
    THEN [m EXCEPT !.st = "err"]
  ELSE LET m1 == parse_status(m, attrs[i], u, ub)
       IN IF m1.st # "run" THEN m1
          ELSE refresh_loop(m1, attrs, i + 1, u, ub)

\* The working copy of the memory the refresh reads and writes; written
\* collects the table indices stored to, oob whether a store went outside.
Mem(drv, ctx) ==
  [st |-> "run", oob |-> FALSE, written |-> {}, ctx |-> ctx,
   hc_device |-> drv.hc_device, nports |-> drv.nports,
   ncontrollers |-> drv.ncontrollers, idev |-> drv.idev]

refresh_imported_device_list(drv, ctx, attrs, u, ub) ==
  refresh_loop(Mem(drv, ctx), attrs, 0, u, ub)

\* the session as the refresh left it
DriverOf(m) ==
  [valid |-> TRUE, hc_device |-> m.hc_device, nports |-> m.nports,
   ncontrollers |-> m.ncontrollers, idev |-> m.idev]

(* ------------------------------------------------------------------ *)
(* The queries                                                         *)
(* ------------------------------------------------------------------ *)

RECURSIVE free_port_from(_, _, _)
\* the for loop of usbip_vhci_get_free_port from index i on
free_port_from(drv, speed, i) ==
  IF ~(i < drv.nports) THEN -1
  ELSE IF speed = USB_SPEED_SUPER /\ drv.idev[i].hub # HUB_SPEED_SUPER
    THEN free_port_from(drv, speed, i + 1)
  ELSE IF speed # USB_SPEED_SUPER /\ drv.idev[i].hub # HUB_SPEED_HIGH
    THEN free_port_from(drv, speed, i + 1)
  ELSE IF drv.idev[i].status = VDEV_ST_NULL THEN drv.idev[i].port
  ELSE free_port_from(drv, speed, i + 1)

RECURSIVE first_null_from(_, _)
\* the loop without its hub test
first_null_from(drv, i) ==
  IF ~(i < drv.nports) THEN -1
  ELSE IF drv.idev[i].status = VDEV_ST_NULL THEN drv.idev[i].port
  ELSE first_null_from(drv, i + 1)

get_free_port_any_hub(drv, speed) == first_null_from(drv, 0)

usbip_vhci_get_free_port(drv, speed) == free_port_from(drv, speed, 0)

\* the bounds test written port > nports
attached_to_off_by_one(drv, port) ==
  IF ~drv.valid THEN -1
  ELSE IF port > drv.nports THEN -1
  ELSE port

\* usbip_vhci_attached_to: the index of the entry returned, -1 for NULL
usbip_vhci_attached_to(drv, port) ==
  IF ~drv.valid THEN -1
  ELSE IF port >= drv.nports THEN -1
  ELSE port

(* ------------------------------------------------------------------ *)
(* The command strings of attach and detach                            *)
(* ------------------------------------------------------------------ *)

\* A string is a sequence of one-character strings.
Digits == <<"0", "1", "2", "3", "4", "5", "6", "7", "8", "9">>
HexDigits == Digits \o <<"a", "b", "c", "d", "e", "f">>

RECURSIVE Render(_, _)
\* the digits of n >= 0 in the given base, most significant first
Render(n, base) ==
  IF n < base THEN << HexDigits[n + 1] >>
  ELSE Render(n \div base, base) \o << HexDigits[(n % base) + 1] >>

\* printf %u of a uint8_t argument
fmt_u8(n) == Render(n % 256, 10)
\* printf %u of a uint32_t argument; the arguments tried are below 2^31,
\* where the conversion to uint32_t changes nothing
fmt_u(n) == Render(n, 10)
\* printf %x of a uint32_t argument
fmt_x(n) == Render(n, 16)
\* printf %d of an int argument
fmt_d(n) == IF n < 0 THEN <<"-">> \o Render(0 - n, 10) ELSE Render(n, 10)

\* a command string with the device id in hexadecimal, as the status text
\* prints it
attach_buff_hex(port, sockfd, devid, speed) ==
  fmt_u8(port) \o <<" ">> \o fmt_d(sockfd) \o <<" ">> \o fmt_x(devid)
    \o <<" ">> \o fmt_u(speed)

\* snprintf(buff, sizeof(buff), "%u %d %u %u", port, sockfd, devid, speed)
attach_buff(port, sockfd, devid, speed) ==
  fmt_u8(port) \o <<" ">> \o fmt_d(sockfd) \o <<" ">> \o fmt_u(devid)
    \o <<" ">> \o fmt_u(speed)

\* snprintf(buff, sizeof(buff), "%u", port)
detach_buff(port) == fmt_u8(port)

\* get_devid(uint8_t busnum, uint8_t devnum): (busnum << 16) | devnum on
\* the two arguments converted to 8 bits
get_devid(busnum, devnum) ==
  ((busnum % 256) * 65536) + (devnum % 256)

(* ------------------------------------------------------------------ *)
(* The inputs: status texts, attribute values, call arguments          *)
(* ------------------------------------------------------------------ *)

\* the tokens after the port of a line the kernel prints for a port that
\* is free, connecting, or in use by the device with the given bus id
KindNull ==
  [status |-> VDEV_ST_NULL, speed |-> 0, devid |-> 0, sockfd |-> 0,
   busid |-> "0-0"]
KindNotAssigned ==
  [status |-> VDEV_ST_NOTASSIGNED, speed |-> 0, devid |-> 0, sockfd |-> 0,
   busid |-> "0-0"]
KindUsed ==
  [status |-> VDEV_ST_USED, speed |-> 3, devid |-> 65538, sockfd |-> 3,
   busid |-> "1-1"]
KindUnknown ==
  [status |-> VDEV_ST_USED, speed |-> 3, devid |-> 65538, sockfd |-> 3,
   busid |-> "9-9"]
\* in use by a device with device id 00010100: bus 1, device number 256
KindWide ==
  [status |-> VDEV_ST_USED, speed |-> 3, devid |-> 65792, sockfd |-> 3,
   busid |-> "1-1"]

Line(n, hub, port, k) ==
  [n |-> n, hub |-> hub, port |-> port, status |-> k.status,
   speed |-> k.speed, devid |-> k.devid, sockfd |-> k.sockfd,
   busid |-> k.busid]

NoAttr == [present |-> FALSE, nl |-> FALSE, lines |-> <<>>]
NoNewline == [present |-> TRUE, nl |-> FALSE, lines |-> <<>>]
Text(lines) == [present |-> TRUE, nl |-> TRUE, lines |-> lines]

\* What a listing says of one port: nothing (hub ""), or a line with hub
\* tag and kind.
PortChoices ==
  { <<"", KindNull>>,
    <<"hs", KindNull>>, <<"hs", KindNotAssigned>>, <<"hs", KindUsed>>,
    <<"ss", KindNull>>, <<"ss", KindUsed>> }

\* the controller whose status attribute lists port p, of nc controllers
\* sharing np ports
ControllerOf(p, nc, np) == (p * nc) \div np

RECURSIVE ListingLines(_, _, _, _, _)
\* the lines of listing f for the ports p.. that controller i lists, in
\* port order
ListingLines(f, p, i, nc, np) ==
  IF p >= np THEN <<>>
  ELSE (IF f[p][1] # "" /\ ControllerOf(p, nc, np) = i
          THEN << Line(7, f[p][1], p, f[p][2]) >> ELSE <<>>)
       \o ListingLines(f, p + 1, i, nc, np)

\* The well-formed texts: every listing of the np ports, each port listed
\* once or left out, spread over the nc status attributes.
Listings(nc, np) ==
  { [i \in 0..(nc - 1) |-> Text(ListingLines(f, 0, i, nc, np))] :
      f \in [0..(np - 1) -> PortChoices] }

\* The lines a kernel would not print for a table of np entries: a line cut
\* after 3, 5 and 6 tokens, a port below and a port above the table, an
\* unknown hub tag, a device number above 255, a bus id that names no
\* device.
OddLines(np) ==
  { Line(3, "hs", 0, KindNull), Line(5, "hs", 0, KindUsed),
    Line(6, "hs", 0, KindUsed), Line(7, "xx", 0, KindNull),
    Line(7, "hs", -1, KindNull), Line(7, "hs", np, KindNull),
    Line(7, "hs", 0, KindWide) }
  \cup { Line(7, "hs", p, KindUnknown) : p \in 0..(np - 1) }

\* well-formed lines put before or after an odd one
PlainLines(np) ==
  { Line(7, "hs", np - 1, KindUsed), Line(7, "ss", 0, KindNull) }

\* attrs with the given text for controller 0 and empty listings after it
InFirst(nc, lines) ==
  [i \in 0..(nc - 1) |-> IF i = 0 THEN Text(lines) ELSE Text(<<>>)]
\* attrs with one line for controller 0 and one for controller 1
InFirstTwo(nc, l0, l1) ==
  [i \in 0..(nc - 1) |->
     IF i = 0 THEN Text(<<l0>>) ELSE IF i = 1 THEN Text(<<l1>>) ELSE Text(<<>>)]

\* The texts with an odd line: alone, after or before a well-formed line
\* of the same attribute, or in the attribute after it; and a port listed
\* twice.
OddTexts(nc, np) ==
  { InFirst(nc, <<s>>) : s \in OddLines(np) }
  \cup { InFirst(nc, <<g, s>>) : g \in PlainLines(np), s \in OddLines(np) }
  \cup { InFirst(nc, <<s, g>>) : g \in PlainLines(np), s \in OddLines(np) }
  \cup (IF nc < 2 THEN {}
        ELSE { InFirstTwo(nc, g, s) : g \in PlainLines(np), s \in OddLines(np) })
  \cup { InFirst(nc, << Line(7, "hs", 0, KindUsed), Line(7, "hs", 0, KindNull) >>),
         InFirst(nc, << Line(7, "hs", 0, KindNull), Line(7, "ss", 0, KindUsed) >>) }

\* The texts with the attribute of controller c absent or without a line
\* break, after nothing or a well-formed line; the attributes after c are
\* not read.
LostTexts(nc, np) ==
  { [i \in 0..(nc - 1) |->
       IF i < c THEN Text(IF i = 0 THEN pre ELSE <<>>)
       ELSE IF i = c THEN bad ELSE NoAttr] :
      c \in 0..(nc - 1), bad \in {NoAttr, NoNewline},
      pre \in { <<>> } \cup { <<g>> : g \in PlainLines(np) } }

\* the texts a refresh can read, by controller count and table size
StatusAttrs ==
  [nc \in 0..MaxControllers, np \in 1..MaxPorts |->
     Listings(nc, np) \cup OddTexts(nc, np) \cup LostTexts(nc, np)]

AllLines(attrs) ==
  UNION { { attrs[i].lines[k] : k \in 1..Len(attrs[i].lines) } : i \in DOMAIN attrs }

\* what lbusid can hold when a line leaves it unwritten: only tried when a
\* line of the text reaches the lookup with fewer than 7 fields
UninitBusids(attrs) ==
  IF \E l \in AllLines(attrs) : l.n < 7 /\ l.status = VDEV_ST_USED
    THEN {"1-1", "9-9"} ELSE {"9-9"}

\* the outcomes of a store outside the table: only tried when a line of
\* the text names such a port
OutsideOutcomes(attrs, drv) ==
  IF \E l \in AllLines(attrs) : l.port \notin DOMAIN drv.idev
    THEN {"crash", "silent"} ELSE {"silent"}

\* USB_SPEED_HIGH, USB_SPEED_SUPER, USB_SPEED_SUPER_PLUS
SpeedValues == {3, USB_SPEED_SUPER, 6}
PortArgs == 0..MaxPorts \cup {255}

\* the arguments of the attach calls tried: every port with one socket,
\* device id and speed, and device id 7fffffff with a negative socket
AttachCalls ==
  { [port |-> p, sockfd |-> 7, devid |-> 65538, speed |-> 3] :
      p \in PortArgs \cup {3} }
  \cup { [port |-> 0, sockfd |-> -1, devid |-> 2147483647,
         speed |-> USB_SPEED_SUPER] }
\* the ports of the detach calls tried
DetachPorts == PortArgs \cup {5}

\* The machines: the port count the nports attribute holds and the number
\* of vhci_hcd.<n> directories.
Machines == [nports : 1..MaxPorts, ncontrollers : 1..MaxControllers]

(* ------------------------------------------------------------------ *)
(* The state machine                                                   *)
(* ------------------------------------------------------------------ *)

NoAttrs == [i \in {} |-> NoAttr]

\* The record of a call that returned. For a call that ran the refresh,
\* attrs is the status text it read, written the set of table indices it
\* stored to, outside whether it stored outside the table, and had the set
\* of ports whose entry carried a descriptor when it was called. For attach
\* and detach, args are the arguments and writes the calls of
\* write_sysfs_attribute in order. For open, env is what the system
\* answered, acquired and released the resources the call obtained and the
\* ones of these it gave back. lost are the resources still held to which
\* the call dropped the only pointer.
Call(op, arg, ret) ==
  [op |-> op, arg |-> arg, ret |-> ret, returned |-> TRUE,
   written |-> {}, outside |-> FALSE, had |-> {},
   attrs |-> NoAttrs, args |-> <<>>, writes |-> <<>>,
   env |-> <<>>, acquired |-> {}, released |-> {}, lost |-> {}]
\* a call that ended the process instead of returning
NoReturn(op, arg) == [Call(op, arg, 0) EXCEPT !.returned = FALSE]
\* between two calls
Idle == Call("idle", 0, 0)

DescPorts(drv) == { p \in DOMAIN drv.idev : drv.idev[p].udev # NoBusid }

Init ==
  /\ hw \in Machines
  /\ vhci_driver = NullDriver
  /\ udev_context = "NULL"
  /\ proc = "running"
  /\ last = Idle

\* the caller can make a call
Ready == proc = "running" /\ last = Idle

\* how a call that ran the refresh ends the process, if it does
ProcAfter(m) == IF m.st \in {"aborted", "crashed"} THEN m.st ELSE "running"

\* the controller handle, when a store outside the table wiped the pointer
\* to it
LostHandle(drv, m) ==
  IF drv.hc_device /\ ~m.hc_device THEN {"hc_device"} ELSE {}

\* usbip_vhci_refresh_device_list with a session open
Refresh ==
  /\ Ready
  /\ vhci_driver.valid
  /\ \E attrs \in StatusAttrs[vhci_driver.ncontrollers,
                              Cardinality(DOMAIN vhci_driver.idev)] :
     \E u \in UninitBusids(attrs), ub \in OutsideOutcomes(attrs, vhci_driver) :
       LET m == refresh_imported_device_list(vhci_driver, udev_context = "live",
                                             attrs, u, ub)
       IN /\ vhci_driver' = DriverOf(m)
          /\ proc' = ProcAfter(m)
          /\ last' = [(IF m.st \in {"aborted", "crashed"}
                         THEN NoReturn("refresh", 0)
                         ELSE Call("refresh", 0, IF m.st = "run" THEN 0 ELSE -1))
                      EXCEPT !.written = m.written,
                             !.outside = m.oob,
                             !.had = DescPorts(vhci_driver),
                             !.attrs = attrs,
                             !.lost = LostHandle(vhci_driver, m)]
  /\ UNCHANGED <<hw, udev_context>>

\* calloc(1, sizeof(struct usbip_vhci_driver) + nports * sizeof(idev[0]))
NewDriver(nports) ==
  [valid |-> TRUE, hc_device |-> FALSE, nports |-> 0, ncontrollers |-> 0,
   idev |-> [i \in 0..(nports - 1) |-> ZeroIdev]]

\* get_nports: -1 without the attribute, else its number
get_nports(attr) == IF ~attr.present THEN -1 ELSE attr.value

\* get_ncontrollers: -1 without a parent device, else what scandir counts
get_ncontrollers(parent) == IF ~parent.present THEN -1 ELSE parent.count

\* What the system answers during one open(): udev_new, the lookup of the
\* controller device, the nports attribute, calloc, the parent's directory
\* and the status attributes. Answers after the step that fails are not
\* asked for.
OpenEnv(new, hc, np, mem, nc, attrs) ==
  [udev_new |-> new, hc_device |-> hc, nports |-> np, calloc |-> mem,
   parent |-> nc, attrs |-> attrs]

\* the nports attribute of machine h: unreadable, 0, or its port count
NportsAttrs(h) ==
  { [present |-> FALSE, value |-> 0], [present |-> TRUE, value |-> 0],
    [present |-> TRUE, value |-> h.nports] }

\* the parent directory of machine h: no parent, a failed or empty scan,
\* or its controllers
Parents(h) ==
  { [present |-> FALSE, count |-> 0], [present |-> TRUE, count |-> -1],
    [present |-> TRUE, count |-> 0],
    [present |-> TRUE, count |-> h.ncontrollers] }

OpenEnvs(h) ==
  LET a0 == [present |-> FALSE, value |-> 0]
      p0 == [present |-> FALSE, count |-> 0]
  IN { OpenEnv(FALSE, FALSE, a0, FALSE, p0, NoAttrs),
       OpenEnv(TRUE, FALSE, a0, FALSE, p0, NoAttrs) }
     \cup { OpenEnv(TRUE, TRUE, a, FALSE, p0, NoAttrs) : a \in NportsAttrs(h) }
     \cup { OpenEnv(TRUE, TRUE, a, TRUE, p, NoAttrs) :
              a \in { x \in NportsAttrs(h) : get_nports(x) > 0 },
              p \in { x \in Parents(h) : get_ncontrollers(x) <= 0 } }
     \cup UNION { { OpenEnv(TRUE, TRUE, a, TRUE, p, attrs) :
                      attrs \in StatusAttrs[p.count, a.value] } :
                  a \in { x \in NportsAttrs(h) : get_nports(x) > 0 },
                  p \in { x \in Parents(h) : get_ncontrollers(x) > 0 } }

\* what an open() was answered, as the call record keeps it: udev_new,
\* the controller device, get_nports, calloc, get_ncontrollers
EnvOf(e) ==
  << e.udev_new, e.hc_device, get_nports(e.nports), e.calloc,
     get_ncontrollers(e.parent) >>

\* The err: label of usbip_vhci_driver_open, reached with the answers e;
\* own says whether the calloc of this call was done. The local hc_device
\* is unref'ed, the table vhci_driver points to is freed, the pointer
\* cleared, the context of this call released.
OpenErr(e, own) ==
  [exit |-> "err", own |-> own, drv |-> NullDriver, context |-> "released",
   proc |-> "running",
   call |-> [Call("open", 0, -1) EXCEPT
               !.env = EnvOf(e),
               !.acquired = {"context"}
                              \cup (IF e.hc_device THEN {"hc_device"} ELSE {})
                              \cup (IF own THEN {"table"} ELSE {}),
               !.released = (IF e.hc_device THEN {"hc_device"} ELSE {})
                              \cup (IF own THEN {"table"} ELSE {})
                              \cup {"context"}]]

\* One run of usbip_vhci_driver_open on the answers e, lines 185-240: how
\* it left (exit), whether it did its calloc (own), what it assigned to
\* vhci_driver (drv) and udev_context (context), and the call record.
\* Nothing of an earlier session is read on the way; what the assignments
\* do to one is in Open.
OpenRun(e, u, ub) ==
  LET nports == get_nports(e.nports)
      drv == [NewDriver(nports) EXCEPT
                !.nports = nports, !.hc_device = TRUE,
                !.ncontrollers = get_ncontrollers(e.parent)]
      m == refresh_imported_device_list(drv, TRUE, e.attrs, u, ub)
  IN IF ~e.udev_new
       THEN \* return -1 before the err: label
            [exit |-> "return", own |-> FALSE, drv |-> NullDriver,
             context |-> "NULL", proc |-> "running",
             call |-> [Call("open", 0, -1) EXCEPT !.env = EnvOf(e)]]
     ELSE IF ~e.hc_device \/ nports <= 0 \/ ~e.calloc THEN OpenErr(e, FALSE)
     ELSE IF drv.ncontrollers <= 0 THEN OpenErr(e, TRUE)
     ELSE IF m.st = "err" THEN OpenErr(e, TRUE)
     ELSE [exit |-> "done", own |-> TRUE, drv |-> DriverOf(m),
           context |-> "live", proc |-> ProcAfter(m),
           call |-> [(IF m.st = "run" THEN Call("open", 0, 0)
                      ELSE NoReturn("open", 0))
                     EXCEPT !.written = m.written,
                            !.outside = m.oob,
                            !.attrs = e.attrs,
                            !.env = EnvOf(e),
                            !.acquired = {"context", "hc_device", "table"},
                            !.lost = LostHandle(drv, m)]]

\* the runs open() can take on machine h
OpenRuns(h) ==
  UNION { { OpenRun(e, u, ub) :
              u \in UninitBusids(e.attrs),
              ub \in OutsideOutcomes(e.attrs, NewDriver(get_nports(e.nports))) } :
          e \in OpenEnvs(h) }

OpenRunsTable == [h \in Machines |-> OpenRuns(h)]

\* udev_context = udev_new() overwrites the pointer to the context of a
\* session that is open
OverwrittenContext == IF udev_context = "live" THEN {"context"} ELSE {}

\* the controller handle of the session that is open: the only pointer to
\* it is in the table of that session
SessionHandle == IF vhci_driver.hc_device THEN {"hc_device"} ELSE {}

\* vhci_driver = calloc(...) overwrites the pointer to the table of a
\* session that is open, and with it the pointer to its controller handle
OverwrittenSession ==
  IF vhci_driver.valid THEN {"table"} \cup SessionHandle ELSE {}

\* What the run r drops of a session that is open: its context at line
\* 185; its table and handle at line 208; at err: without a calloc of its
\* own, free(vhci_driver) frees the table of that session and drops its
\* handle.
OpenLost(r) ==
  OverwrittenContext
  \cup (IF r.own THEN OverwrittenSession
        ELSE IF r.exit = "err" /\ vhci_driver.valid THEN SessionHandle
        ELSE {})

\* usbip_vhci_driver_open
Open ==
  /\ Ready
  /\ \E r \in OpenRunsTable[hw] :
       /\ vhci_driver' = IF r.exit = "return" THEN vhci_driver ELSE r.drv
       /\ udev_context' = r.context
       /\ proc' = r.proc
       /\ last' = [r.call EXCEPT !.lost = @ \cup OpenLost(r)]
  /\ UNCHANGED hw

\* usbip_vhci_driver_close
Close ==
  /\ Ready
  /\ IF ~vhci_driver.valid
       THEN UNCHANGED <<vhci_driver, udev_context>>
       ELSE /\ vhci_driver' = NullDriver
            /\ udev_context' = "released"
  /\ last' = Call("close", 0, 0)
  /\ UNCHANGED <<hw, proc>>

\* usbip_vhci_get_free_port with a session open
GetFreePort ==
  /\ Ready
  /\ vhci_driver.valid
  /\ \E speed \in SpeedValues :
       last' = Call("get_free_port", speed,
                    usbip_vhci_get_free_port(vhci_driver, speed))
  /\ UNCHANGED <<hw, vhci_driver, udev_context, proc>>

\* write_sysfs_attribute on <syspath of hc_device>/<attr>: a lost
\* hc_device gives no path to write to
write_sysfs_attribute(drv, accepted) ==
  IF drv.hc_device /\ accepted THEN 0 ELSE -1

\* the record of one call of write_sysfs_attribute
Write(attr, buff, ret) == [attr |-> attr, buff |-> buff, ret |-> ret]

\* an attach that marks the port as taken in the table when the write
\* succeeds
AttachUpdatesTable ==
  /\ Ready
  /\ vhci_driver.valid
  /\ \E a \in AttachCalls, accepted \in BOOLEAN :
       LET buff == attach_buff(a.port, a.sockfd, a.devid, a.speed)
           ret == write_sysfs_attribute(vhci_driver, accepted)
       IN /\ last' = [Call("attach", a.port, IF ret < 0 THEN -1 ELSE 0) EXCEPT
                        !.args = << a.port, a.sockfd, a.devid, a.speed >>,
                        !.writes = << Write("attach", buff, ret) >>]
          /\ vhci_driver' =
               IF ret = 0 /\ a.port \in DOMAIN vhci_driver.idev
                 THEN [vhci_driver EXCEPT
                         !.idev[a.port].status = VDEV_ST_NOTASSIGNED]
                 ELSE vhci_driver
  /\ UNCHANGED <<hw, udev_context, proc>>

\* an attach that writes a second time when the first write fails
AttachRetries ==
  /\ Ready
  /\ vhci_driver.valid
  /\ \E a \in AttachCalls, accepted \in BOOLEAN, again \in BOOLEAN :
       LET buff == attach_buff(a.port, a.sockfd, a.devid, a.speed)
           ret == write_sysfs_attribute(vhci_driver, accepted)
           ret2 == write_sysfs_attribute(vhci_driver, again)
       IN last' = [Call("attach", a.port,
                        IF ret < 0 /\ ret2 < 0 THEN -1 ELSE 0) EXCEPT
                     !.args = << a.port, a.sockfd, a.devid, a.speed >>,
                     !.writes = IF ret < 0
                                  THEN << Write("attach", buff, ret),
                                          Write("attach", buff, ret2) >>
                                  ELSE << Write("attach", buff, ret) >>]
  /\ UNCHANGED <<hw, vhci_driver, udev_context, proc>>

\* usbip_vhci_attach_device2 with a session open; the table is not touched
Attach ==
  /\ Ready
  /\ vhci_driver.valid
  /\ \E a \in AttachCalls, accepted \in BOOLEAN :
       LET buff == attach_buff(a.port, a.sockfd, a.devid, a.speed)
           ret == write_sysfs_attribute(vhci_driver, accepted)
       IN last' = [Call("attach", a.port, IF ret < 0 THEN -1 ELSE 0) EXCEPT
                     !.args = << a.port, a.sockfd, a.devid, a.speed >>,
                     !.writes = << Write("attach", buff, ret) >>]
  /\ UNCHANGED <<hw, vhci_driver, udev_context, proc>>

\* a detach that clears the entry of the port in the table when the write
\* succeeds
DetachClearsEntry ==
  /\ Ready
  /\ vhci_driver.valid
  /\ \E port \in DetachPorts, accepted \in BOOLEAN :
       LET buff == detach_buff(port)
           ret == write_sysfs_attribute(vhci_driver, accepted)
       IN /\ last' = [Call("detach", port, IF ret < 0 THEN -1 ELSE 0) EXCEPT
                        !.args = << port >>,
                        !.writes = << Write("detach", buff, ret) >>]
          /\ vhci_driver' =
               IF ret = 0 /\ port \in DOMAIN vhci_driver.idev
                 THEN [vhci_driver EXCEPT
                         !.idev[port].status = VDEV_ST_NULL]
                 ELSE vhci_driver
  /\ UNCHANGED <<hw, udev_context, proc>>

\* usbip_vhci_detach_device with a session open; the table is not touched
Detach ==
  /\ Ready
  /\ vhci_driver.valid
  /\ \E port \in DetachPorts, accepted \in BOOLEAN :
       LET buff == detach_buff(port)
           ret == write_sysfs_attribute(vhci_driver, accepted)
       IN last' = [Call("detach", port, IF ret < 0 THEN -1 ELSE 0) EXCEPT
                     !.args = << port >>,
                     !.writes = << Write("detach", buff, ret) >>]
  /\ UNCHANGED <<hw, vhci_driver, udev_context, proc>>

\* refresh, get_free_port, attach and detach read through vhci_driver
\* without testing it: with no session the read is through a null pointer
NullSessionCall ==
  /\ Ready
  /\ ~vhci_driver.valid
  /\ \E op \in {"refresh", "get_free_port", "attach", "detach"} :
       last' = NoReturn(op, 0)
  /\ proc' = "crashed"
  /\ UNCHANGED <<hw, vhci_driver, udev_context>>

\* usbip_vhci_attached_to
AttachedTo ==
  /\ Ready
  /\ \E port \in PortArgs :
       last' = Call("attached_to", port, usbip_vhci_attached_to(vhci_driver, port))
  /\ UNCHANGED <<hw, vhci_driver, udev_context, proc>>

\* the caller has the result of its call and goes on to the next one
Return ==
  /\ proc = "running"
  /\ last # Idle
  /\ last' = Idle
  /\ UNCHANGED <<hw, vhci_driver, udev_context, proc>>

Next ==
  \/ Open
  \/ Close
  \/ Refresh
  \/ GetFreePort
  \/ Attach
  \/ Detach
  \/ AttachedTo
  \/ NullSessionCall
  \/ Return

Spec == Init /\ [][Next]_vars

(* ------------------------------------------------------------------ *)
(* Properties                                                          *)
(* ------------------------------------------------------------------ *)

Entries == vhci_driver.idev
Visible == { p \in DOMAIN Entries : p < vhci_driver.nports }
IsFree(e) == e.status = VDEV_ST_NULL \/ e.status = VDEV_ST_NOTASSIGNED
\* an entry a status line has stored to
IsStored(e) == e # ZeroIdev
RefreshReturned(l) == l.op = "refresh" /\ l.returned

\* C1: a refresh that returns an error leaves every entry of the port
\* table as it was before the call.
C1_RefreshAllOrNothing ==
  [][(RefreshReturned(last') /\ last'.ret # 0)
       => vhci_driver'.idev = vhci_driver.idev]_vars

C3_RefreshReplacesWholesale ==
  (RefreshReturned(last) /\ last.ret = 0)
    => \A p \in DOMAIN Entries \ last.written : Entries[p] = ZeroIdev

\* C4: no status text makes open or refresh store outside
\* idev[0..nports-1], and every entry a line has stored to holds its own
\* index as port.
C4_StoresStayInTable ==
  /\ ~last.outside
  /\ \A p \in DOMAIN Entries : IsStored(Entries[p]) => Entries[p].port = p

\* the hub class a request for speed asks for
WantedHub(speed) ==
  IF speed = USB_SPEED_SUPER THEN HUB_SPEED_SUPER ELSE HUB_SPEED_HIGH
\* the ports that are free in the sense of C5 and of the wanted class
Qualifying(speed) ==
  { p \in Visible : IsFree(Entries[p]) /\ Entries[p].hub = WantedHub(speed) }

\* C5: get_free_port returns the lowest port that is free (NULL or
\* NOT_ASSIGNED) and of the wanted hub class, and -1 only if there is none.
C5_LowestFreePort ==
  (last.op = "get_free_port" /\ last.returned)
    => IF Qualifying(last.arg) = {} THEN last.ret = -1
       ELSE /\ last.ret \in Qualifying(last.arg)
            /\ \A q \in Qualifying(last.arg) : last.ret <= q

\* C6: the port get_free_port returns is never of the other hub class:
\* the entry at the returned index is SUPER for a SUPER request and HIGH
\* for every other request.
C6_NoClassMixing ==
  (last.op = "get_free_port" /\ last.returned /\ last.ret # -1)
    => /\ last.ret \in Visible
       /\ Entries[last.ret].hub = WantedHub(last.arg)

\* C6 witness: a SUPER request skipped the free HIGH port 0 and got port 1
C6_Witness ==
  /\ last.op = "get_free_port" /\ last.arg = USB_SPEED_SUPER /\ last.ret = 1
  /\ Entries[0].hub = HUB_SPEED_HIGH /\ Entries[0].status = VDEV_ST_NULL

\* C7: attach and detach, whatever the control write answers, leave the
\* session (every table entry, nports, the controller count) unchanged,
\* and with it the answers of get_free_port and attached_to.
C7_AttachDetachFrame ==
  [][(last'.op \in {"attach", "detach"})
       => /\ vhci_driver' = vhci_driver
          /\ \A s \in SpeedValues :
               vhci_driver.valid =>
                 usbip_vhci_get_free_port(vhci_driver', s)
                   = usbip_vhci_get_free_port(vhci_driver, s)
          /\ \A p \in PortArgs :
               usbip_vhci_attached_to(vhci_driver', p)
                 = usbip_vhci_attached_to(vhci_driver, p)]_vars

\* C7 witness: an attach whose write succeeded on a port that the table
\* still shows as free
C7_Witness ==
  /\ last.op = "attach" /\ last.returned /\ last.ret = 0
  /\ last.arg \in Visible
  /\ Entries[last.arg].status = VDEV_ST_NULL

C9_OccupiedHasDescriptor ==
  vhci_driver.valid
    => \A p \in Visible :
         (IsStored(Entries[p]) /\ ~IsFree(Entries[p]))
           => Entries[p].udev # NoBusid

\* C10: in an open session an entry whose status is free (NULL or
\* NOT_ASSIGNED) carries no descriptor.
C10_FreeHasNoDescriptor ==
  vhci_driver.valid
    => \A p \in DOMAIN Entries :
         IsFree(Entries[p]) => Entries[p].udev = NoBusid

\* C10 witness: a refresh stored a free status to a port whose entry
\* carried a descriptor when the refresh was called
C10_Witness ==
  /\ RefreshReturned(last)
  /\ \E p \in last.had \cap last.written :
       IsFree(Entries[p]) /\ Entries[p].udev = NoBusid

OpenReturned(l) == l.op = "open" /\ l.returned

\* C11: open fails (returns, with -1) when the controller device is not
\* found, when get_nports gives no positive number, when calloc fails or
\* when get_ncontrollers gives no positive number; and after an open that
\* returned -1 no session is open, attached_to gives NULL for every port,
\* and every resource the call acquired was released by it.
C11_FailedOpenLeavesNothing ==
  /\ (last.op = "open"
        /\ (~last.env[2] \/ last.env[3] <= 0 \/ ~last.env[4] \/ last.env[5] <= 0))
       => (last.returned /\ last.ret = -1)
  /\ (OpenReturned(last) /\ last.ret = -1)
       => /\ ~vhci_driver.valid
          /\ \A p \in PortArgs : usbip_vhci_attached_to(vhci_driver, p) = -1
          /\ last.acquired \subseteq last.released

AttachOrDetach(l) == l.op \in {"attach", "detach"} /\ l.returned

\* C12: an attach or detach that returns has called write_sysfs_attribute
\* exactly once, on the attribute of its own name, and returns an error
\* exactly when that write reported failure.
C12_OneWriteAttempt ==
  AttachOrDetach(last)
    => /\ Len(last.writes) = 1
       /\ last.writes[1].attr = last.op
       /\ (last.ret # 0) <=> (last.writes[1].ret < 0)

\* C12 witness: an attach whose one write failed and that returned -1
C12_Witness ==
  /\ AttachOrDetach(last) /\ last.op = "attach"
  /\ last.ret = -1 /\ Len(last.writes) = 1 /\ last.writes[1].ret < 0
  /\ vhci_driver.hc_device

\* reading a command string back: the fields between single spaces
RECURSIVE Fields(_)
Fields(str) ==
  IF str = <<>> THEN << <<>> >>
  ELSE LET r == Fields(Tail(str))
       IN IF Head(str) = " " THEN << <<>> >> \o r
          ELSE << << Head(str) >> \o Head(r) >> \o Tail(r)

IsDigit(c) == \E i \in 1..10 : Digits[i] = c
DigitValue(c) == (CHOOSE i \in 1..10 : Digits[i] = c) - 1
Unsigned(f) == IF f # <<>> /\ Head(f) = "-" THEN Tail(f) ELSE f
\* a decimal numeral: digits after an optional sign, no leading zero
IsDecimal(f) ==
  LET d == Unsigned(f)
  IN /\ d # <<>>
     /\ \A i \in 1..Len(d) : IsDigit(d[i])
     /\ Len(d) > 1 => d[1] # "0"

RECURSIVE Magnitude(_)
Magnitude(d) ==
  IF d = <<>> THEN 0
  ELSE Magnitude(SubSeq(d, 1, Len(d) - 1)) * 10 + DigitValue(d[Len(d)])
\* the number a decimal numeral denotes
Decimal(f) ==
  IF Head(f) = "-" THEN 0 - Magnitude(Tail(f)) ELSE Magnitude(f)

\* C13: the string an attach or detach writes reads back, field by field
\* between single spaces, as the decimal numerals of its arguments in
\* order (port, socket, device id, speed for attach; port for detach);
\* attach(3, 7, 0x00010002, 3) writes "3 7 65538 3", detach(5) writes "5".
C13_CommandStrings ==
  (last.op \in {"attach", "detach"} /\ last.writes # <<>>)
    => LET buff == last.writes[1].buff
           f == Fields(buff)
       IN /\ Len(f) = Len(last.args)
          /\ Len(last.args) = IF last.op = "attach" THEN 4 ELSE 1
          /\ \A i \in 1..Len(f) :
               IsDecimal(f[i]) /\ Decimal(f[i]) = last.args[i]
          /\ last.args = <<3, 7, 65538, 3>>
               => buff = <<"3", " ", "7", " ", "6", "5", "5", "3", "8", " ", "3">>
          /\ last.args = <<5>> => buff = <<"5">>

\* C13 witness: the attach of the example has written its string
C13_Witness ==
  /\ last.op = "attach" /\ last.args = <<3, 7, 65538, 3>>
  /\ Len(last.writes) = 1
  /\ last.writes[1].buff
       = <<"3", " ", "7", " ", "6", "5", "5", "3", "8", " ", "3">>

\* C14: for every entry a status line has stored, bus number and device
\* number are the high and low 16 bits of the device id, they compose to
\* it, and get_devid applied to them returns it.
C14_DeviceIdRoundTrip ==
  vhci_driver.valid
    => \A p \in DOMAIN Entries :
         IsStored(Entries[p])
           => /\ Entries[p].busnum = Entries[p].devid \div 65536
              /\ Entries[p].devnum = Entries[p].devid % 65536
              /\ Entries[p].busnum * 65536 + Entries[p].devnum = Entries[p].devid
              /\ get_devid(Entries[p].busnum, Entries[p].devnum) = Entries[p].devid

UnknownTag(l) == l.hub \notin {"hs", "ss"}

\* C15: a refresh that read a data line whose hub tag is neither "hs" nor
\* "ss" returns an error, and no entry was stored from such a line.
C15_UnknownTagIsError ==
  (RefreshReturned(last) /\ \E l \in AllLines(last.attrs) : UnknownTag(l))
    => /\ last.ret = -1
       /\ \A l \in AllLines(last.attrs) : UnknownTag(l) => l.port \notin last.written

\* C16: while a session stays open, no call other than open and close
\* changes its nports or its controller count.
C16_SessionSizeFixed ==
  [][(vhci_driver.valid /\ vhci_driver'.valid /\ last'.op \notin {"open", "close"})
       => /\ vhci_driver'.nports = vhci_driver.nports
          /\ vhci_driver'.ncontrollers = vhci_driver.ncontrollers]_vars

\* a text whose data lines all have at least 5 fields and name ports of
\* the table
AcceptedText(attrs, drv) ==
  \A l \in AllLines(attrs) : l.n >= 5 /\ l.port \in DOMAIN drv.idev

\* C17: a refresh of an accepted text has one outcome: the table and the
\* result it leaves are the ones every run of the parser on that text from
\* the same table gives, whatever the memory of lbusid held before.
C17_ParseDeterministic ==
  [][(last'.op = "refresh" /\ vhci_driver.valid
        /\ AcceptedText(last'.attrs, vhci_driver))
       => \A u \in {"1-1", "9-9"} :
            LET m == refresh_imported_device_list(
                       vhci_driver, udev_context = "live", last'.attrs, u, "silent")
            IN /\ DriverOf(m) = vhci_driver'
               /\ (m.st = "run") <=> (last'.returned /\ last'.ret = 0)]_vars

\* C18: no open or close whose stores stay in the table drops the only
\* pointer to a context, controller handle or table that is not released
\* (such a resource stays unreleased when no session is open), and the
\* context of an open session is not a released one.
C18_ReleasedExactlyOnce ==
  /\ (last.op \in {"open", "close"} /\ ~last.outside) => last.lost = {}
  /\ vhci_driver.valid => udev_context # "released"

\* C19: refresh, get_free_port, attach and detach called with no session
\* open return an error; the process goes on.
C19_NoSessionIsAnError ==
  (last.op \in {"refresh", "get_free_port", "attach", "detach"}
     /\ ~vhci_driver.valid)
    => (last.returned /\ last.ret = -1 /\ proc = "running")

\* C20: attach, detach, get_free_port and attached_to, whatever they
\* return, leave the answer of get_free_port for every speed as it was,
\* and get_free_port returns that answer: a port it returned is returned
\* again after a successful attach on it, until a refresh.
C20_FreePortStable ==
  [][(vhci_driver.valid
        /\ last'.op \in {"attach", "detach", "get_free_port", "attached_to"})
       => /\ \A s \in SpeedValues :
               usbip_vhci_get_free_port(vhci_driver', s)
                 = usbip_vhci_get_free_port(vhci_driver, s)
          /\ last'.op = "get_free_port"
               => last'.ret = usbip_vhci_get_free_port(vhci_driver, last'.arg)]_vars

\* C20 witness: an attach on port p succeeded, and get_free_port still
\* answers p
C20_Witness ==
  /\ AttachOrDetach(last) /\ last.op = "attach" /\ last.ret = 0
  /\ vhci_driver.valid
  /\ \E s \in SpeedValues : usbip_vhci_get_free_port(vhci_driver, s) = last.arg

====
